---- MODULE Spec2Model ----
(***************************************************************************)
(* The kitties pallet (pallets/kitties/src/lib.rs): an asset registry with *)
(* one stake unit reserved per asset and a marketplace.                    *)
(*                                                                         *)
(* The dispatchables carry no #[transactional] attribute and the pallet    *)
(* is written against a FRAME release without default storage layers, so   *)
(* a storage or ledger write made before an error return stays written.   *)
(* Each action below is one whole dispatchable call.                       *)
(***************************************************************************)
EXTENDS Integers, Sequences, FiniteSets, TLC

(* ----------------------------- bounds --------------------------------- *)
\* stands for T::KittyIndex::max_value(): indices are 0..MaxKittyIndex
MaxKittyIndex == 3
\* prices offered to sell are None or 0..MaxPrice
MaxPrice == 1
\* the number of calls dispatched in a run
MaxCalls == 4

(* ------------------------ program constants --------------------------- *)
\* T::StakeForEachKitty::get()
StakeForEachKitty == 1
\* length of Kitty::dna, [u8; 16]
DnaLen == 16

\* Option::None, and a storage key that was never inserted
None == -1
Absent == -2
\* the Option<Kitty> read at an index that holds no kitty
NoKitty == <<>>

\* the signed origins
Accounts == {1, 2, 3, 4}
KittyIndex == 0..MaxKittyIndex
Prices == {None} \cup (0..MaxPrice)
\* the ledger's existential deposit: more than StakeForEachKitty + 1, so a
\* payment that passes the balance check of buy can still be refused
ExistentialDeposit == 3
\* the free balances of accounts 1, 2, 3, 4 at genesis
GenesisBalance == <<4, 3, 4, 0>>

Min(a, b) == IF a < b THEN a ELSE b

(* --------------------------- byte arithmetic -------------------------- *)
RECURSIVE BitAnd(_, _, _)
\* a & b on n-bit values
BitAnd(a, b, n) ==
    IF n = 0 THEN 0
    ELSE ((a % 2) * (b % 2)) + 2 * BitAnd(a \div 2, b \div 2, n - 1)

RECURSIVE BitOr(_, _, _)
\* a | b on n-bit values
BitOr(a, b, n) ==
    IF n = 0 THEN 0
    ELSE (IF (a % 2) + (b % 2) > 0 THEN 1 ELSE 0)
         + 2 * BitOr(a \div 2, b \div 2, n - 1)

\* !a on a u8
BitNot(a) == 255 - a

\* & and | on u8, tabulated once
U8 == 0..255
AndU8 == [a \in U8 |-> [b \in U8 |-> BitAnd(a, b, 8)]]
OrU8 == [a \in U8 |-> [b \in U8 |-> BitOr(a, b, 8)]]

\* the byte arrays random_value (blake2_128 of seed, sender, extrinsic
\* index) is taken to return: an opaque hash, so any of a few samples
RandomValues ==
    { [i \in 1..DnaLen |-> 240],
      [i \in 1..DnaLen |-> IF i % 2 = 1 THEN 60 ELSE 165] }

\* mutant: the selector picks the other parent
MixDnaSwapped(selector, dna_1, dna_2) ==
    [i \in 1..DnaLen |->
        OrU8[AndU8[selector[i]][dna_2[i]]][AndU8[BitNot(selector[i])][dna_1[i]]]]

\* the loop of breed: new_dna[i] = (selector[i] & dna_1[i]) | (!selector[i] & dna_2[i])
MixDna(selector, dna_1, dna_2) ==
    [i \in 1..DnaLen |->
        OrU8[AndU8[selector[i]][dna_1[i]]][AndU8[BitNot(selector[i])][dna_2[i]]]]

(* ------------------------------- state -------------------------------- *)
VARIABLES
    KittiesCount,       \* StorageValue: None or the next index
    Kitties,            \* StorageMap index -> NoKitty or the dna of Some(Kitty)
    Owner,              \* StorageMap index -> Absent or the Some(account)
    ListForSale,        \* StorageMap index -> Absent, None or a price
    free,               \* the ledger's free balance of each account
    reserved,           \* the ledger's reserved balance of each account
    call,               \* the name of the last dispatched call
    result,             \* its outcome
    events,             \* the events it deposited
    calls               \* the number of calls dispatched so far

vars == <<KittiesCount, Kitties, Owner, ListForSale, free, reserved,
          call, result, events, calls>>

\* the state of the pallet and of the ledger, without the call history
registry == <<KittiesCount, Kitties, Owner, ListForSale, free, reserved>>

\* a ValueQuery read of an Option-valued map: None when the key is absent
Get(map, k) == IF map[k] = Absent THEN None ELSE map[k]

(* ------------------------------ ledger -------------------------------- *)
\* Currency::reserve succeeds iff the free balance covers the amount
CanReserve(f, who, value) == f[who] >= value

ReserveFree(f, who, value) == [f EXCEPT ![who] = @ - value]
ReserveReserved(r, who, value) == [r EXCEPT ![who] = @ + value]

\* Currency::unreserve moves what is reserved, at most value, back to free
UnreserveFree(f, r, who, value) == [f EXCEPT ![who] = @ + Min(r[who], value)]
UnreserveReserved(r, who, value) == [r EXCEPT ![who] = @ - Min(r[who], value)]

\* Currency::transfer(from, to, value, KeepAlive): "Ok" or the ledger's
\* error; the debited account must keep the existential deposit
TransferResult(f, r, ed, from, value) ==
    IF f[from] < value THEN "InsufficientBalance"
    ELSE IF f[from] + r[from] - value < ed THEN "KeepAlive"
    ELSE "Ok"

TransferFree(f, from, to, value) ==
    [f EXCEPT ![from] = @ - value, ![to] = @ + value]

(* ------------------------------- Init --------------------------------- *)
Init ==
    /\ KittiesCount = None
    /\ Kitties = [k \in KittyIndex |-> NoKitty]
    /\ Owner = [k \in KittyIndex |-> Absent]
    /\ ListForSale = [k \in KittyIndex |-> Absent]
    /\ free = GenesisBalance
    /\ reserved = [a \in Accounts |-> 0]
    /\ call = "none"
    /\ result = "none"
    /\ events = <<>>
    /\ calls = 0

(* ------------------------- outcomes of a call ------------------------- *)
\* the eight variants of Error<T>
Errors == {"KittiesCountOverflow", "NotOwner", "SameParentIndex",
           "InvalidKittyIndex", "BuyerIsOwner", "KittyNotForSell",
           "NotEnoughBalanceForBuying", "NotEnoughBalanceForStaking"}

\* the errors of Currency::transfer
TransferErrors == {"InsufficientBalance", "KeepAlive"}

\* an error return (or a panic) before the first write
Fail(c, err) ==
    /\ call' = c
    /\ result' = err
    /\ events' = <<>>
    /\ UNCHANGED registry

(* ----------------------- create_kitty_with_stake ---------------------- *)
\* mutant: every kitty gets index 0
NextKittyIdZero(count) == 0

\* mutant: the first kitty gets index 1
NextKittyIdFromOne(count) == IF count = None THEN 1 ELSE count

\* the match on Self::kitties_count(): the id of the new kitty
NextKittyId(count) == IF count = None THEN 0 ELSE count

\* mutant: the counter is never compared with the maximum
CountOverflowNever(count) == FALSE

\* ensure!(id != T::KittyIndex::max_value(), KittiesCountOverflow)
CountOverflow(count) == count # None /\ count = MaxKittyIndex

\* mutant: the counter skips an index
NextCountSkips(kitty_id) == kitty_id + 2

\* mutant: the counter is stored without the increment
NextCountSame(kitty_id) == kitty_id

\* KittiesCount::put(kitty_id + 1)
NextCount(kitty_id) == kitty_id + 1

\* mutant: the counter is advanced before the stake is reserved
CreateKittyWithStakeCountFirst(c, owner, dna) ==
    LET kitty_id == NextKittyId(KittiesCount) IN
    IF CountOverflow(KittiesCount) THEN Fail(c, "KittiesCountOverflow")
    ELSE IF ~CanReserve(free, owner, StakeForEachKitty)
    THEN /\ KittiesCount' = NextCount(kitty_id)
         /\ call' = c
         /\ result' = "NotEnoughBalanceForStaking"
         /\ events' = <<>>
         /\ UNCHANGED <<Kitties, Owner, ListForSale, free, reserved>>
    ELSE /\ free' = ReserveFree(free, owner, StakeForEachKitty)
         /\ reserved' = ReserveReserved(reserved, owner, StakeForEachKitty)
         /\ Kitties' = [Kitties EXCEPT ![kitty_id] = dna]
         /\ Owner' = [Owner EXCEPT ![kitty_id] = owner]
         /\ KittiesCount' = NextCount(kitty_id)
         /\ events' = << <<"KittyCreate", owner, kitty_id>> >>
         /\ call' = c
         /\ result' = "Ok"
         /\ UNCHANGED ListForSale

CreateKittyWithStake(c, owner, dna) ==
    LET kitty_id == NextKittyId(KittiesCount) IN
    IF CountOverflow(KittiesCount) THEN Fail(c, "KittiesCountOverflow")
    ELSE IF ~CanReserve(free, owner, StakeForEachKitty)
    THEN Fail(c, "NotEnoughBalanceForStaking")
    ELSE /\ free' = ReserveFree(free, owner, StakeForEachKitty)
         /\ reserved' = ReserveReserved(reserved, owner, StakeForEachKitty)
         /\ Kitties' = [Kitties EXCEPT ![kitty_id] = dna]
         /\ Owner' = [Owner EXCEPT ![kitty_id] = owner]
         /\ KittiesCount' = NextCount(kitty_id)
         /\ events' = << <<"KittyCreate", owner, kitty_id>> >>
         /\ call' = c
         /\ result' = "Ok"
         /\ UNCHANGED ListForSale

(* --------------------------- dispatchables ---------------------------- *)
Create(who, dna) ==
    CreateKittyWithStake("create", who, dna)

\* mutant: the parents are looked up before the indices are compared
BreedLooksUpFirst(who, kitty_id_1, kitty_id_2, selector) ==
    LET c == "breed"
        dna_1 == Kitties[kitty_id_1]
        dna_2 == Kitties[kitty_id_2]
    IN
    IF dna_1 = NoKitty THEN Fail(c, "InvalidKittyIndex")
    ELSE IF dna_2 = NoKitty THEN Fail(c, "InvalidKittyIndex")
    ELSE IF kitty_id_1 = kitty_id_2 THEN Fail(c, "SameParentIndex")
    ELSE CreateKittyWithStake(c, who, MixDna(selector, dna_1, dna_2))

Breed(who, kitty_id_1, kitty_id_2, selector) ==
    LET c == "breed"
        dna_1 == Kitties[kitty_id_1]
        dna_2 == Kitties[kitty_id_2]
    IN
    IF kitty_id_1 = kitty_id_2 THEN Fail(c, "SameParentIndex")
    ELSE IF dna_1 = NoKitty THEN Fail(c, "InvalidKittyIndex")
    ELSE IF dna_2 = NoKitty THEN Fail(c, "InvalidKittyIndex")
    ELSE CreateKittyWithStake(c, who, MixDna(selector, dna_1, dna_2))

\* mutant: a kitty nobody owns passes the owner check
IsOwnerOrUnowned(who, kitty_id) == Get(Owner, kitty_id) \in {who, None}

\* ensure!(Some(who) == Owner::get(kitty_id), NotOwner), in sell and transfer
IsOwner(who, kitty_id) == Get(Owner, kitty_id) = who

Sell(who, kitty_id, price) ==
    LET c == "sell" IN
    IF ~IsOwner(who, kitty_id) THEN Fail(c, "NotOwner")
    ELSE /\ ListForSale' = [ListForSale EXCEPT ![kitty_id] = price]
         /\ events' = << <<"KittyListed", who, kitty_id, price>> >>
         /\ call' = c
         /\ result' = "Ok"
         /\ UNCHANGED <<KittiesCount, Kitties, Owner, free, reserved>>

\* mutant: the old owner's stake is released before the new owner's is
\* reserved
StakeSwapReleaseFirst(f, r, new_owner, old_owner, stake_amount) ==
    LET f1 == UnreserveFree(f, r, old_owner, stake_amount)
        r1 == UnreserveReserved(r, old_owner, stake_amount)
    IN
    << <<f, r>>,
       <<f1, r1>>,
       <<ReserveFree(f1, new_owner, stake_amount),
         ReserveReserved(r1, new_owner, stake_amount)>> >>

\* the stake swap of transfer and of buy, once the reservation is known to
\* succeed: the ledger <<free, reserved>> before it, after
\* Currency::reserve(&new_owner, stake_amount) and after
\* Currency::unreserve(&old_owner, stake_amount)
StakeSwap(f, r, new_owner, old_owner, stake_amount) ==
    LET f1 == ReserveFree(f, new_owner, stake_amount)
        r1 == ReserveReserved(r, new_owner, stake_amount)
    IN
    << <<f, r>>,
       <<f1, r1>>,
       <<UnreserveFree(f1, r1, old_owner, stake_amount),
         UnreserveReserved(r1, old_owner, stake_amount)>> >>

\* mutant: a transferred kitty is taken off the market
TransferDelists(who, new_owner, kitty_id) ==
    LET c == "transfer"
        stake_amount == StakeForEachKitty
        swap == StakeSwap(free, reserved, new_owner, who, stake_amount)
    IN
    IF ~IsOwner(who, kitty_id) THEN Fail(c, "NotOwner")
    ELSE IF ~CanReserve(free, new_owner, stake_amount)
    THEN Fail(c, "NotEnoughBalanceForStaking")
    ELSE /\ free' = swap[3][1]
         /\ reserved' = swap[3][2]
         /\ Owner' = [Owner EXCEPT ![kitty_id] = new_owner]
         /\ ListForSale' = [ListForSale EXCEPT ![kitty_id] = Absent]
         /\ events' = << <<"KittyTransfer", who, new_owner, kitty_id>> >>
         /\ call' = c
         /\ result' = "Ok"
         /\ UNCHANGED <<KittiesCount, Kitties>>

Transfer(who, new_owner, kitty_id) ==
    LET c == "transfer"
        stake_amount == StakeForEachKitty
        swap == StakeSwap(free, reserved, new_owner, who, stake_amount)
    IN
    IF ~IsOwner(who, kitty_id) THEN Fail(c, "NotOwner")
    ELSE IF ~CanReserve(free, new_owner, stake_amount)
    THEN Fail(c, "NotEnoughBalanceForStaking")
    ELSE /\ free' = swap[3][1]
         /\ reserved' = swap[3][2]
         /\ Owner' = [Owner EXCEPT ![kitty_id] = new_owner]
         /\ events' = << <<"KittyTransfer", who, new_owner, kitty_id>> >>
         /\ call' = c
         /\ result' = "Ok"
         /\ UNCHANGED <<KittiesCount, Kitties, ListForSale>>

\* mutant: a balance equal to price plus stake is accepted
BuyerBalanceNotLess(buyer_balance, kitty_price, stake_amount) ==
    buyer_balance >= kitty_price + stake_amount

\* ensure!(buyer_balance > (kitty_price + stake_amount), NotEnoughBalanceForBuying)
BuyerBalanceEnough(buyer_balance, kitty_price, stake_amount) ==
    buyer_balance > kitty_price + stake_amount

\* mutant: the owner check is skipped
BuyerIsSellerNever(buyer, seller) == FALSE

\* ensure!(Some(buyer) != Some(seller), BuyerIsOwner)
BuyerIsSeller(buyer, seller) == buyer = seller

\* mutant: a kitty without a price is sold for nothing
KittyPriceOrZero(kitty_id) ==
    IF Get(ListForSale, kitty_id) = None THEN 0 ELSE ListForSale[kitty_id]

\* ListForSale::get(kitty_id), None when the kitty is not for sale
KittyPrice(kitty_id) == Get(ListForSale, kitty_id)

\* the reads and checks of buy before its first write: "Ok" or how it ends
BuyCheck(buyer, kitty_id) ==
    LET seller == Get(Owner, kitty_id)
        kitty_price == KittyPrice(kitty_id)
    IN
    \* Owner::get(kitty_id).unwrap()
    IF seller = None THEN "Panic"
    ELSE IF BuyerIsSeller(buyer, seller) THEN "BuyerIsOwner"
    ELSE IF kitty_price = None THEN "KittyNotForSell"
    ELSE IF ~BuyerBalanceEnough(free[buyer], kitty_price, StakeForEachKitty)
    THEN "NotEnoughBalanceForBuying"
    ELSE IF ~CanReserve(free, buyer, StakeForEachKitty)
    THEN "NotEnoughBalanceForStaking"
    ELSE "Ok"

Buy(buyer, kitty_id) ==
    LET c == "buy"
        seller == Get(Owner, kitty_id)
        kitty_price == KittyPrice(kitty_id)
        stake_amount == StakeForEachKitty
        swap == StakeSwap(free, reserved, buyer, seller, stake_amount)
        f2 == swap[3][1]
        r2 == swap[3][2]
        paid == TransferResult(f2, r2, ExistentialDeposit, buyer, kitty_price)
    IN
    IF BuyCheck(buyer, kitty_id) # "Ok" THEN Fail(c, BuyCheck(buyer, kitty_id))
    ELSE IF paid # "Ok"
    \* the ? on Currency::transfer returns with the stake swap written
    THEN /\ free' = f2
         /\ reserved' = r2
         /\ events' = <<>>
         /\ call' = c
         /\ result' = paid
         /\ UNCHANGED <<KittiesCount, Kitties, Owner, ListForSale>>
    ELSE /\ free' = TransferFree(f2, buyer, seller, kitty_price)
         /\ reserved' = r2
         /\ Owner' = [Owner EXCEPT ![kitty_id] = buyer]
         /\ ListForSale' = [ListForSale EXCEPT ![kitty_id] = Absent]
         /\ events' = << <<"KittySold", buyer, seller, kitty_id>> >>
         /\ call' = c
         /\ result' = "Ok"
         /\ UNCHANGED <<KittiesCount, Kitties>>

(* ---------------------------- specification --------------------------- *)
\* one more call is dispatched
Dispatch ==
    /\ calls < MaxCalls
    /\ calls' = calls + 1

DoCreate ==
    Dispatch /\ \E who \in Accounts, dna \in RandomValues : Create(who, dna)

DoBreed ==
    Dispatch /\ \E who \in Accounts, kitty_id_1, kitty_id_2 \in KittyIndex,
                   selector \in RandomValues :
                    Breed(who, kitty_id_1, kitty_id_2, selector)

DoSell ==
    Dispatch /\ \E who \in Accounts, kitty_id \in KittyIndex, price \in Prices :
                    Sell(who, kitty_id, price)

DoTransfer ==
    Dispatch /\ \E who, new_owner \in Accounts, kitty_id \in KittyIndex :
                    Transfer(who, new_owner, kitty_id)

DoBuy ==
    Dispatch /\ \E buyer \in Accounts, kitty_id \in KittyIndex :
                    Buy(buyer, kitty_id)

Next == DoCreate \/ DoBreed \/ DoSell \/ DoTransfer \/ DoBuy

Spec == Init /\ [][Next]_vars

(* ------------------------------- claims ------------------------------- *)
\* the kitties the owner map records for an account
Owned(a) == {k \in KittyIndex : Get(Owner, k) = a}

\* the registry counter, 0 when it was never set
Count == IF KittiesCount = None THEN 0 ELSE KittiesCount

\* C1: every account's reserved balance is at least the stake unit times the
\* number of kitties the owner map records for it.
C1_ReservedCoversStake ==
    \A a \in Accounts : reserved[a] >= StakeForEachKitty * Cardinality(Owned(a))

\* C2: for every index i, the kitty record exists iff the owner map holds an
\* owner for i iff i is below the registry counter.
C2_ExistsIffOwnedIffBelowCount ==
    \A i \in KittyIndex :
        /\ (Kitties[i] # NoKitty) <=> (Get(Owner, i) # None)
        /\ (Get(Owner, i) # None) <=> (i < Count)

\* C2 witness: some kitties were created and some indices never were.
C2_Witness ==
    /\ KittiesCount = 2
    /\ Kitties[1] # NoKitty
    /\ Get(Owner, 2) = None

\* C7: every call ends with success or one of the eight variants of Error<T>.
C7_OnlyNamedErrors == result \in Errors \cup {"Ok", "none"}

\* C3: when the payment of buy fails after the stake swap, the call returns
\* an error and leaves balances, owner, listing and counter as they were.
C3_BuyPaymentFailureUndone ==
    [][(call' = "buy" /\ result' \in TransferErrors) => registry' = registry]_vars

\* C4: a successful create or breed by c advances the counter by one, gives
\* the new kitty the index the counter had (0 when never set), unused
\* before, owned by c after; and create by an account with a free balance of
\* at least one stake unit succeeds while the counter is below the maximum.
C4_Created(who) ==
    /\ KittiesCount' = Count + 1
    /\ Kitties[Count] = NoKitty
    /\ Get(Owner, Count) = None
    /\ Kitties'[Count] # NoKitty
    /\ Get(Owner', Count) = who

C4_CreationAssignsNextIndex ==
    [](ENABLED Dispatch =>
        /\ \A who \in Accounts, dna \in RandomValues :
            ~ENABLED (Dispatch /\ Create(who, dna) /\ result' = "Ok"
                      /\ ~C4_Created(who))
        /\ \A who \in Accounts, kitty_id_1, kitty_id_2 \in KittyIndex,
              selector \in RandomValues :
            ~ENABLED (Dispatch /\ Breed(who, kitty_id_1, kitty_id_2, selector)
                      /\ result' = "Ok" /\ ~C4_Created(who))
        /\ \A who \in Accounts, dna \in RandomValues :
            (free[who] >= StakeForEachKitty /\ Count < MaxKittyIndex)
            => ~ENABLED (Dispatch /\ Create(who, dna) /\ result' # "Ok"))

\* C4 witness: a breed succeeded and its kitty got index 2.
C4_Witness ==
    /\ call = "breed"
    /\ result = "Ok"
    /\ KittiesCount = 3
    /\ \E who \in Accounts :
        events = << <<"KittyCreate", who, 2>> >> /\ Get(Owner, 2) = who

\* C5: a successful buy of k by B from A at price P makes B the owner, moves
\* one stake unit of reserve from A to B and P of free balance from B to A,
\* removes the listing (a following buy by another account ends with
\* KittyNotForSell) and deposits the one event KittySold(B, A, k).
C5_Sold(B, A, P, k) ==
    /\ Get(Owner', k) = B
    /\ reserved'[B] = reserved[B] + StakeForEachKitty
    /\ reserved'[A] = reserved[A] - StakeForEachKitty
    /\ free'[B] = free[B] - StakeForEachKitty - P
    /\ free'[A] = free[A] + StakeForEachKitty + P
    /\ ListForSale'[k] = Absent
    /\ \A x \in Accounts \ {B} : BuyCheck(x, k)' = "KittyNotForSell"
    /\ events' = << <<"KittySold", B, A, k>> >>

C5_BuySettles ==
    [][(call' = "buy" /\ result' = "Ok") =>
        \A B \in Accounts, k \in KittyIndex :
            Buy(B, k) => C5_Sold(B, Get(Owner, k), ListForSale[k], k)]_vars

\* C6: a create or breed that fails in create_kitty_with_stake (counter at
\* the maximum, or reservation refused for a free balance below one stake
\* unit) writes no kitty, no owner, no counter, no balance, and no event.
C6_FailedCreationWritesNothing ==
    [][/\ (/\ call' \in {"create", "breed"}
           /\ result' \in {"KittiesCountOverflow", "NotEnoughBalanceForStaking"})
          => (registry' = registry /\ events' = <<>>)
       /\ call' = "create" =>
            \A who \in Accounts, dna \in RandomValues :
                (/\ Create(who, dna)
                 /\ \/ Count = MaxKittyIndex
                    \/ free[who] < StakeForEachKitty)
                => /\ result' \in {"KittiesCountOverflow",
                                   "NotEnoughBalanceForStaking"}
                   /\ registry' = registry
                   /\ events' = <<>>
      ]_vars

\* C6 witness: a breed of two kitties was refused the stake reservation.
C6_Witness ==
    /\ call = "breed"
    /\ result = "NotEnoughBalanceForStaking"
    /\ KittiesCount = 2

\* C8: for a kitty listed at price P and a caller who is not its owner, buy
\* fails with NotEnoughBalanceForBuying at a free balance of P plus one
\* stake unit or less, and succeeds at P plus one stake unit plus one.
C8_BuyThreshold ==
    [][call' = "buy" =>
        \A buyer \in Accounts, k \in KittyIndex :
            (/\ Buy(buyer, k)
             /\ Kitties[k] # NoKitty
             /\ Get(Owner, k) # buyer
             /\ ListForSale[k] \notin {Absent, None})
            => /\ free[buyer] <= ListForSale[k] + StakeForEachKitty
                    => result' = "NotEnoughBalanceForBuying"
               /\ free[buyer] = ListForSale[k] + StakeForEachKitty + 1
                    => result' = "Ok"]_vars

\* C8 as amended: at a free balance of P plus one stake unit or less buy
\* fails with NotEnoughBalanceForBuying; at P plus one stake unit plus one
\* the balance check passes, and buy succeeds exactly when the payment
\* leaves the caller the existential deposit, else it returns the ledger's
\* error.
C8_BuyThresholdAmended ==
    [][call' = "buy" =>
        \A buyer \in Accounts, k \in KittyIndex :
            (/\ Buy(buyer, k)
             /\ Kitties[k] # NoKitty
             /\ Get(Owner, k) # buyer
             /\ ListForSale[k] \notin {Absent, None})
            => /\ free[buyer] <= ListForSale[k] + StakeForEachKitty
                    => result' = "NotEnoughBalanceForBuying"
               /\ free[buyer] = ListForSale[k] + StakeForEachKitty + 1
                    => /\ result' \in {"Ok"} \cup TransferErrors
                       /\ result' = "Ok" <=>
                            reserved[buyer] + StakeForEachKitty + 1
                                >= ExistentialDeposit]_vars

\* C8 witness: a buy succeeded that left the buyer a free balance of one,
\* so the buyer had the price plus one stake unit plus one.
C8_Witness ==
    /\ call = "buy"
    /\ result = "Ok"
    /\ \E b, a \in Accounts, k \in KittyIndex :
        /\ events = << <<"KittySold", b, a, k>> >>
        /\ free[b] = 1

\* C9: buy by a caller who is not the owner, of a kitty with no listing entry
\* or a listing entry without a price, fails with KittyNotForSell and
\* changes neither owner map, balances, listing map nor counter.
C9_BuyUnlisted ==
    [][call' = "buy" =>
        \A buyer \in Accounts, k \in KittyIndex :
            (/\ Buy(buyer, k)
             /\ Kitties[k] # NoKitty
             /\ Get(Owner, k) # buyer
             /\ ListForSale[k] \in {Absent, None})
            => /\ result' = "KittyNotForSell"
               /\ registry' = registry]_vars

\* C9 witness: a buy ended with KittyNotForSell while a listing entry
\* without a price is stored.
C9_Witness ==
    /\ call = "buy"
    /\ result = "KittyNotForSell"
    /\ \E k \in KittyIndex : ListForSale[k] = None

\* C10: buy of a kitty by its recorded owner fails with BuyerIsOwner,
\* whatever its listing and the caller's balance, and changes no state.
C10_BuyByOwner ==
    [][call' = "buy" =>
        \A buyer \in Accounts, k \in KittyIndex :
            (/\ Buy(buyer, k)
             /\ Kitties[k] # NoKitty
             /\ Get(Owner, k) = buyer)
            => /\ result' = "BuyerIsOwner"
               /\ registry' = registry]_vars

\* C10 witness: an owner with the balance to pay tried to buy their own
\* listed kitty.
C10_Witness ==
    /\ call = "buy"
    /\ result = "BuyerIsOwner"
    /\ \E k \in KittyIndex :
        /\ ListForSale[k] \notin {Absent, None}
        /\ Get(Owner, k) # None
        /\ free[Get(Owner, k)] > ListForSale[k] + StakeForEachKitty

\* C11: transfer(who, new_owner, k) fails with NotOwner unless who is the
\* recorded owner of k; when who is the owner and the reservation for
\* new_owner fails, the call returns an error, who stays the owner, who's
\* reserved stake is not released and no event is deposited; when the
\* reservation succeeds, new_owner becomes the owner and one stake unit
\* leaves who's reserve.
C11_Transferred(who, new_owner, k) ==
    IF Get(Owner, k) # who THEN result' = "NotOwner"
    ELSE IF free[new_owner] < StakeForEachKitty
    THEN /\ result' # "Ok"
         /\ Get(Owner', k) = who
         /\ reserved'[who] = reserved[who]
         /\ events' = <<>>
    ELSE /\ result' = "Ok"
         /\ Get(Owner', k) = new_owner
         /\ who # new_owner =>
                /\ reserved'[who] = reserved[who] - StakeForEachKitty
                /\ free'[who] = free[who] + StakeForEachKitty
         /\ who = new_owner =>
                /\ reserved'[who] = reserved[who]
                /\ free'[who] = free[who]

C11_TransferMovesStake ==
    [][call' = "transfer" =>
        \A who, new_owner \in Accounts, k \in KittyIndex :
            C11_Transferred(who, new_owner, k) \/ ~Transfer(who, new_owner, k)
      ]_vars

\* C12: sell of k fails with NotOwner, the listing map unchanged, unless
\* the caller is the recorded owner of k; by the owner it succeeds and the
\* listing entry of k becomes the given optional price, with owner map,
\* counter, kitty records and balances unchanged. A listing entry is created
\* or given another value only by a sell of the account owning the kitty.
C12_Listed(who, k, price) ==
    IF Get(Owner, k) # who
    THEN /\ result' = "NotOwner"
         /\ ListForSale' = ListForSale
    ELSE /\ result' = "Ok"
         /\ ListForSale'[k] = price
         /\ \A j \in KittyIndex \ {k} : ListForSale'[j] = ListForSale[j]
         /\ UNCHANGED <<Owner, KittiesCount, Kitties, free, reserved>>

C12_SellByOwnerOnly ==
    /\ [](ENABLED Dispatch =>
            \A who \in Accounts, k \in KittyIndex, price \in Prices :
                ~ENABLED (Dispatch /\ Sell(who, k, price)
                          /\ ~C12_Listed(who, k, price)))
    /\ [][\A k \in KittyIndex :
            (ListForSale'[k] # ListForSale[k] /\ ListForSale'[k] # Absent)
            => /\ call' = "sell"
               /\ result' = "Ok"
               /\ Get(Owner, k) # None
               /\ events' = << <<"KittyListed", Get(Owner, k), k, ListForSale'[k]>> >>
         ]_vars

\* C12 witness: the owner of a kitty gave it a listing entry without a price.
C12_Witness ==
    /\ call = "sell"
    /\ result = "Ok"
    /\ \E k \in KittyIndex :
        /\ ListForSale[k] = None
        /\ events = << <<"KittyListed", Get(Owner, k), k, None>> >>

\* C13: breed(who, a, b) with a = b fails with SameParentIndex, whether or
\* not a kitty exists at a and whatever who's balance; with a # b it fails
\* with InvalidKittyIndex when a or b holds no kitty record; in both cases
\* no state changes.
C13_Refused(a, b) ==
    IF a = b THEN result' = "SameParentIndex" /\ registry' = registry
    ELSE (Kitties[a] = NoKitty \/ Kitties[b] = NoKitty)
         => (result' = "InvalidKittyIndex" /\ registry' = registry)

C13_BreedParentChecks ==
    [](ENABLED Dispatch =>
        \A a, b \in KittyIndex, who \in Accounts, selector \in RandomValues :
            ~ENABLED (Dispatch /\ Breed(who, a, b, selector)
                      /\ ~C13_Refused(a, b)))

\* C13 witness: a breed of an index with itself was refused although no
\* kitty exists there and the caller cannot pay a stake, in a registry that
\* holds kitties.
C13_Witness ==
    /\ call = "breed"
    /\ result = "SameParentIndex"
    /\ KittiesCount = 2
    /\ Kitties[3] = NoKitty
    /\ \E who \in Accounts : free[who] < StakeForEachKitty

\* bit j (0 the lowest) of x
Bit(x, j) == (x \div (2 ^ j)) % 2

\* the four-bit value that has, at each bit, a's bit where s's bit is 1 and
\* b's bit where it is 0
SelectBits(s, a, b) ==
    LET pick(j) == IF Bit(s, j) = 1 THEN Bit(a, j) ELSE Bit(b, j)
    IN pick(0) + 2 * pick(1) + 4 * pick(2) + 8 * pick(3)

\* SelectBits, tabulated once over the half bytes
SelectHalf ==
    [s \in 0..15 |-> [a \in 0..15 |-> [b \in 0..15 |-> SelectBits(s, a, b)]]]

\* C14: the dna stored by a successful breed(a, b) with selector S has, at
\* each of the 16 byte positions and each of the 8 bits (taken as the high
\* and the low half byte), the bit of a's dna where the bit of S is 1 and
\* the bit of b's dna where it is 0.
C14_Mixed(a, b, S) ==
    LET R == Kitties'[Count]
        A == Kitties[a]
        B == Kitties[b]
    IN
    (a # b /\ A # NoKitty /\ B # NoKitty) =>
        /\ DOMAIN R = 1..16
        /\ \A i \in 1..16 :
            R[i] = 16 * SelectHalf[S[i] \div 16][A[i] \div 16][B[i] \div 16]
                   + SelectHalf[S[i] % 16][A[i] % 16][B[i] % 16]

C14_BreedMixesBits ==
    [](ENABLED Dispatch =>
        \A a, b \in KittyIndex, who \in Accounts, S \in RandomValues :
            ~ENABLED (Dispatch /\ Breed(who, a, b, S) /\ result' = "Ok"
                      /\ ~C14_Mixed(a, b, S)))

\* C14 witness: breeds have stored a kitty whose dna is neither parent's nor
\* the selector's, so the mix took bits from both parents.
C14_Witness ==
    /\ call = "breed"
    /\ result = "Ok"
    /\ KittiesCount = 3
    /\ Kitties[2] \notin RandomValues
    /\ Kitties[2] # Kitties[0]
    /\ Kitties[2] # Kitties[1]

\* C15: the registry counter never decreases and no index is assigned
\* twice: the counter changes only in a successful create or breed, by
\* exactly plus one, and the kitty then written goes to an index that held
\* none; sell, transfer, buy and every failed call leave the counter
\* unchanged.
C15_CounterMonotonic ==
    [][/\ Count' >= Count
       /\ KittiesCount' # KittiesCount =>
            /\ call' \in {"create", "breed"}
            /\ result' = "Ok"
            /\ Count' = Count + 1
       /\ (call' \in {"sell", "transfer", "buy"} \/ result' # "Ok") =>
            KittiesCount' = KittiesCount
       /\ \A k \in KittyIndex :
            Kitties'[k] # Kitties[k] =>
                /\ Kitties[k] = NoKitty
                /\ k = Count
                /\ Count' = k + 1
      ]_vars

\* C15 witness: after three kitties were created a call failed and the
\* counter stayed at three.
C15_Witness ==
    /\ KittiesCount = 3
    /\ result \notin {"Ok", "none"}
    /\ \A k \in 0..2 : Kitties[k] # NoKitty

\* C16: a kitty record that exists at index k exists in every later state
\* with the same 16-byte dna; no call removes a record or changes its dna.
C16_RecordsImmutable ==
    [][\/ Kitties' = Kitties
       \/ \A k \in KittyIndex :
            Kitties[k] # NoKitty =>
                /\ Kitties'[k] = Kitties[k]
                /\ DOMAIN Kitties'[k] = 1..16
      ]_vars

\* C16 witness: kitty 0 was listed and sold, its owner and listing entry
\* changed, and further kitties were created after it.
C16_Witness ==
    /\ call = "buy"
    /\ result = "Ok"
    /\ Kitties[0] # NoKitty
    /\ Kitties[1] # NoKitty
    /\ \E b, a \in Accounts : events = << <<"KittySold", b, a, 0>> >>

\* C17: when the registry counter equals the maximum index, create fails
\* with KittiesCountOverflow, and so does breed of two existing kitties,
\* also for a caller without the balance for the stake; the counter never
\* exceeds the maximum and no kitty is ever stored at the maximum index.
C17_BreedRefused(a, b) ==
    /\ result' \in {"KittiesCountOverflow", "SameParentIndex",
                    "InvalidKittyIndex"}
    /\ registry' = registry
    /\ (a # b /\ Kitties[a] # NoKitty /\ Kitties[b] # NoKitty)
        => result' = "KittiesCountOverflow"

C17_OverflowRefused ==
    [](/\ Count <= MaxKittyIndex
       /\ Kitties[MaxKittyIndex] = NoKitty
       /\ Get(Owner, MaxKittyIndex) = None
       /\ (ENABLED Dispatch /\ KittiesCount = MaxKittyIndex) =>
            /\ \A who \in Accounts, dna \in RandomValues :
                ~ENABLED (/\ Dispatch
                          /\ Create(who, dna)
                          /\ ~(/\ result' = "KittiesCountOverflow"
                               /\ registry' = registry))
            /\ \A who \in Accounts, a, b \in KittyIndex,
                  selector \in RandomValues :
                ~ENABLED (/\ Dispatch
                          /\ Breed(who, a, b, selector)
                          /\ ~C17_BreedRefused(a, b)))

\* C17 witness: with the counter at the maximum a breed was refused with
\* KittiesCountOverflow, while an account has no balance for a stake.
C17_Witness ==
    /\ KittiesCount = MaxKittyIndex
    /\ call = "breed"
    /\ result = "KittiesCountOverflow"
    /\ \E who \in Accounts : free[who] < StakeForEachKitty

\* C18: in transfer and in buy the new owner's stake unit is reserved
\* before the old owner's is released, and nothing is released when the
\* reservation fails: after the first step of the swap the new owner holds
\* one more reserved unit and the old owner's reserve is untouched, and at
\* no step do the two hold less reserve together than before the swap.
C18_Swapped(new_owner, old_owner) ==
    LET steps == StakeSwap(free, reserved, new_owner, old_owner,
                           StakeForEachKitty)
        Res(i, a) == steps[i][2][a]
    IN
    /\ Len(steps) = 3
    /\ steps[1] = <<free, reserved>>
    /\ reserved' = steps[3][2]
    /\ Res(2, new_owner) = Res(1, new_owner) + StakeForEachKitty
    /\ new_owner # old_owner => Res(2, old_owner) = Res(1, old_owner)
    /\ \A i \in 1..3 :
        Res(i, new_owner) + Res(i, old_owner)
            >= Res(1, new_owner) + Res(1, old_owner)

C18_ReserveBeforeRelease ==
    [][/\ (/\ call' \in {"transfer", "buy"}
           /\ result' = "NotEnoughBalanceForStaking") => registry' = registry
       /\ (call' = "transfer" /\ result' = "Ok") =>
            \A who, new_owner \in Accounts :
                C18_Swapped(new_owner, who) \/
                \A k \in KittyIndex : ~Transfer(who, new_owner, k)
       /\ (call' = "buy" /\ result' \in {"Ok"} \cup TransferErrors) =>
            \A buyer \in Accounts, k \in KittyIndex :
                ~Buy(buyer, k) \/ C18_Swapped(buyer, Get(Owner, k))
      ]_vars

\* C18 witness: a kitty was transferred to another account, which now holds
\* a reserved stake unit, and a transfer to an account without the balance
\* for the stake is possible next.
C18_Witness ==
    /\ call = "transfer"
    /\ result = "Ok"
    /\ \E a, b \in Accounts, k \in KittyIndex :
        /\ a # b
        /\ events = << <<"KittyTransfer", a, b, k>> >>
        /\ reserved[b] >= StakeForEachKitty
        /\ reserved[a] = 0
        /\ \E x \in Accounts : free[x] < StakeForEachKitty

\* C19: transfer leaves the listing map unchanged; after A's transfer of a
\* kitty k listed at P to B, a buy of k by a third account C whose balance
\* passes the check of buy and covers the payment succeeds at price P and
\* pays B; a listing entry is removed only by a successful buy.
C19_BoughtFrom(C, B, P, k) ==
    /\ result' = "Ok"
    /\ Get(Owner', k) = C
    /\ free'[C] = free[C] - StakeForEachKitty - P
    /\ free'[B] = free[B] + P + Min(reserved[B], StakeForEachKitty)
    /\ events' = << <<"KittySold", C, B, k>> >>

C19_TransferKeepsListing ==
    [][/\ call' = "transfer" => ListForSale' = ListForSale
       /\ \A k \in KittyIndex :
            (ListForSale[k] # Absent /\ ListForSale'[k] = Absent)
            => (call' = "buy" /\ result' = "Ok")
       /\ (call = "transfer" /\ result = "Ok" /\ call' = "buy") =>
            \A A, B \in Accounts, k \in KittyIndex :
                (/\ events = << <<"KittyTransfer", A, B, k>> >>
                 /\ ListForSale[k] \notin {Absent, None})
                => \A C \in Accounts \ {A, B} :
                    (/\ free[C] > ListForSale[k] + StakeForEachKitty
                     /\ free[C] + reserved[C] - ListForSale[k]
                            >= ExistentialDeposit)
                    => (C19_BoughtFrom(C, B, ListForSale[k], k) \/ ~Buy(C, k))
      ]_vars

\* C19 witness: account 1 created kitty 0, listed it at 1 and transferred it
\* to account 2; the entry is still there and account 3 can buy the kitty.
C19_Witness ==
    /\ calls = 3
    /\ call = "transfer"
    /\ result = "Ok"
    /\ events = << <<"KittyTransfer", 1, 2, 0>> >>
    /\ ListForSale[0] = 1
    /\ Get(Owner, 0) = 2
    /\ BuyCheck(3, 0) = "Ok"
    /\ free[3] + reserved[3] - ListForSale[0] >= ExistentialDeposit

RECURSIVE Total(_, _)
\* the sum of the balances b over the accounts S
Total(b, S) ==
    IF S = {} THEN 0
    ELSE LET a == CHOOSE x \in S : TRUE IN b[a] + Total(b, S \ {a})

\* C20: the sum over all accounts of free plus reserved balance equals its
\* value at genesis, and the sum of the reserved balances equals the stake
\* unit times the number of existing kitties.
C20_CurrencyConserved ==
    /\ Total(free, Accounts) + Total(reserved, Accounts)
            = Total(GenesisBalance, Accounts)
    /\ Total(reserved, Accounts)
            = StakeForEachKitty
                * Cardinality({k \in KittyIndex : Kitties[k] # NoKitty})

====
